---- MODULE Spec2Model ----
(***************************************************************************)
(* A model of bridge/bridge_server.py: the workflow-session registry       *)
(* (WORKFLOWS, _WORKFLOW_LOCKS, _get_or_create_workflow, _prune_workflows, *)
(* _evict_lru_workflow), the event translation and SSE pipeline            *)
(* (_stream_events, gen, _sse_response) and the run/audit store helpers.   *)
(*                                                                         *)
(* Scheduling is asyncio's: one task runs at a time and control changes    *)
(* hands only at an await that suspends.  Every action below is the code   *)
(* between two suspension points.  `await create_workflow(...)` is taken   *)
(* as a suspension point (the factory is an awaited coroutine that may     *)
(* perform I/O, which is why the call site takes a lock around it);        *)
(* acquiring an uncontended asyncio.Lock does not suspend.  The two        *)
(* streaming handlers, responses and continue_workflow, differ only in the *)
(* workflow method that supplies the events and share the handler actions. *)
(*                                                                         *)
(* Specifications: Spec (concurrent _get_or_create_workflow calls),        *)
(* SpecPrune (_prune_workflows on any registry), SpecServe (requests       *)
(* served one after the other), SpecConc (two overlapping requests of one  *)
(* conversation), SpecStore, SpecStoreFault, SpecStoreLoss (the store      *)
(* helpers and run endpoints call by call: all writes succeeding, writes   *)
(* that may raise, run rows that may vanish from the database),            *)
(* SpecWorkflowRows (_ensure_workflow_row), SpecSweep (the background     *)
(* task _cleanup_workflows and lifespan's shutdown), SpecEvict (one call   *)
(* on any registry), SpecApi (both endpoints with any conversation field), *)
(* SpecTranslate (the two event translators on any event), SpecReuse       *)
(* (requests while sessions expire or are evicted) and SpecLive (requests  *)
(* whose stream raises or whose client disconnects, with fairness).        *)
(***************************************************************************)
EXTENDS Integers, Sequences, FiniteSets, TLC

\* ------------------------------------------------------------------ bounds
NumTasks == 3       \* concurrent _get_or_create_workflow calls
MaxTime == 2        \* the clock runs 0..MaxTime
MaxEvents == 2      \* events a workflow stream yields before it ends

\* MAX_WORKFLOWS = None (unlimited); TLC cannot compare a string with a number
None == -1

\* the values the configuration takes: MAX_WORKFLOWS unset or a positive count
CapChoices == {None, 1}
TTLChoices == {1}

Tasks == 1..NumTasks
ConvIds == {"k1", "k2"}
NoKey == ""
NoLock == 0
NoWf == 0
NoRun == 0
NoTime == -1
NoText == ""

\* key = conversation_id or f"conv_{uuid4().hex[:8]}": a generated key is fresh,
\* here one per calling task
GenKey(t) == "conv_" \o ToString(t)
AllKeys == ConvIds \cup {GenKey(t) : t \in Tasks}
LockIds == 1..NumTasks

VARIABLES
    WORKFLOWS,        \* dict in insertion order: Seq of [key, wf, ts]
    WORKFLOW_LOCKS,   \* defaultdict(asyncio.Lock): key -> lock object id, NoLock = no entry
    lockObjs,         \* the asyncio.Lock objects: id -> [locked, waiters]
    MAX_WORKFLOWS,    \* None or a number
    WORKFLOW_TTL,
    clock,            \* time.time()
    pruneLog,         \* what the last _prune_workflows removed: [expired, over] (sets of keys)
    tasks,            \* the _get_or_create_workflow calls: t -> [pc, key, current_time, lock, wf, peers]
    CONV_RUNS,        \* conversation key -> run id, NoRun = no entry
    workflowRows,     \* table workflows: Seq of rows
    runRows,          \* table runs: Seq of rows, row i has id i (uuid4: fresh)
    auditRows,        \* table audit_logs: Seq of rows
    reqs,             \* the request handlers: t -> [pc, entity, events, q, item, out]
    resp,             \* the latest call of a store helper or endpoint and what it returned
    sweep,            \* the task running _cleanup_workflows: [pc, last, prev, turn]
    life              \* lifespan: "serving", "awaiting" (the cancelled task), "stopped"

regVars == <<WORKFLOWS, WORKFLOW_LOCKS, lockObjs, MAX_WORKFLOWS, WORKFLOW_TTL, clock, pruneLog, tasks>>
storeVars == <<CONV_RUNS, workflowRows, runRows, auditRows>>
sideVars == <<resp, sweep, life>>
vars == <<regVars, storeVars, reqs, sideVars>>

\* ---------------------------------------------------------- dict helpers
Entry(k, w, ts) == [key |-> k, wf |-> w, ts |-> ts]

IndexOf(wfs, k) ==
    IF \E i \in 1..Len(wfs) : wfs[i].key = k
    THEN CHOOSE i \in 1..Len(wfs) : wfs[i].key = k
    ELSE 0

DictSetStale(wfs, k, w, ts) ==
    IF IndexOf(wfs, k) # 0 THEN wfs ELSE Append(wfs, Entry(k, w, ts))

\* WORKFLOWS[key] = (wf, ts): an existing key keeps its place, a new one goes last
DictSet(wfs, k, w, ts) ==
    IF IndexOf(wfs, k) # 0
    THEN [wfs EXCEPT ![IndexOf(wfs, k)] = Entry(k, w, ts)]
    ELSE Append(wfs, Entry(k, w, ts))

\* del WORKFLOWS[key] for every key of ks
DictDel(wfs, ks) == SelectSeq(wfs, LAMBDA e : e.key \notin ks)

LocksDelNone(locks, ks) == locks

\* if key in _WORKFLOW_LOCKS: del _WORKFLOW_LOCKS[key], for every key of ks
LocksDel(locks, ks) == [k \in DOMAIN locks |-> IF k \in ks THEN NoLock ELSE locks[k]]

\* ------------------------------------------------------ _evict_lru_workflow
LruIndexNewest(wfs) ==
    CHOOSE i \in 1..Len(wfs) : \A j \in 1..Len(wfs) : wfs[i].ts >= wfs[j].ts

\* min(WORKFLOWS.items(), key=timestamp): the first entry with the least timestamp
LruIndex(wfs) ==
    CHOOSE i \in 1..Len(wfs) :
        /\ \A j \in 1..Len(wfs) : wfs[i].ts <= wfs[j].ts
        /\ \A j \in 1..(i - 1) : wfs[j].ts > wfs[i].ts

evict_lru_workflow(wfs, locks) ==
    IF wfs = <<>>
    THEN [wfs |-> wfs, locks |-> locks]
    ELSE LET k == wfs[LruIndex(wfs)].key
         IN  [wfs |-> DictDel(wfs, {k}), locks |-> LocksDel(locks, {k})]

\* --------------------------------------------------------- _prune_workflows
IsExpiredInclusive(ts, now, ttl) == now - ts >= ttl

\* snapshot_ts - timestamp > WORKFLOW_TTL
IsExpired(ts, now, ttl) == now - ts > ttl

ExpiredKeys(wfs, now, ttl) ==
    {wfs[i].key : i \in {j \in 1..Len(wfs) : IsExpired(wfs[j].ts, now, ttl)}}

\* sorted(WORKFLOWS.items(), key=timestamp): stable
RECURSIVE InsertByTs(_, _)
InsertByTs(s, e) ==
    IF s = <<>> THEN <<e>>
    ELSE IF s[Len(s)].ts <= e.ts THEN Append(s, e)
    ELSE Append(InsertByTs(SubSeq(s, 1, Len(s) - 1), e), s[Len(s)])

RECURSIVE SortedByTs(_)
SortedByTs(wfs) ==
    IF wfs = <<>> THEN <<>>
    ELSE InsertByTs(SortedByTs(SubSeq(wfs, 1, Len(wfs) - 1)), wfs[Len(wfs)])

OverLimitKeysOne(wfs, max) ==
    IF max # None /\ Len(wfs) > max THEN {SortedByTs(wfs)[1].key} ELSE {}

\* the keys of sorted_workflows[:num_to_evict]
OverLimitKeys(wfs, max) ==
    IF max # None /\ Len(wfs) > max
    THEN LET sorted_workflows == SortedByTs(wfs)
             num_to_evict == Len(wfs) - max
         IN  {sorted_workflows[i].key : i \in 1..num_to_evict}
    ELSE {}

prune_workflows(wfs, locks, now, ttl, max) ==
    LET expired_keys == ExpiredKeys(wfs, now, ttl)
        wfs1 == DictDel(wfs, expired_keys)
        locks1 == LocksDel(locks, expired_keys)
        over == OverLimitKeys(wfs1, max)
    IN  [wfs |-> DictDel(wfs1, over), locks |-> LocksDel(locks1, over),
         expired |-> expired_keys, over |-> over]

\* ----------------------------------------------------------------- requests
\* the `conversation` field of a request body, Optional[Any]: its JSON type, and
\* for a string its value, for an object whether it has "id" and the id
Conversation(type, has_id, value) == [type |-> type, has_id |-> has_id, value |-> value]

\* conversation = None, the field's default
NoConversation == Conversation("none", FALSE, NoText)

\* kind is the endpoint that received the request ("none": not recorded)
IdleReq == [pc |-> "idle", entity |-> NoText, events |-> <<>>, q |-> <<>>,
            item |-> [type |-> "none"], out |-> <<>>,
            kind |-> "none", conversation |-> NoConversation]

\* ------------------------------------------------------------ asyncio.Lock
FreshLockObj == [locked |-> FALSE, waiters |-> <<>>]

\* a lock object nobody references any more is garbage: its id can be reused
Referenced(locks, tks) ==
    {locks[k] : k \in DOMAIN locks} \cup
    {tks[t].lock : t \in {u \in DOMAIN tks : tks[u].pc \in {"waiting", "creating"}}}

Collect(objs, locks, tks) ==
    [l \in DOMAIN objs |-> IF l \in Referenced(locks, tks) THEN objs[l] ELSE FreshLockObj]

NotReleased(lk) == lk

\* Lock.release(): unlock; the first waiter, if any, is woken and locks it when it runs
Released(lk) == [lk EXCEPT !.locked = FALSE]

\* Lock.acquire() without waiting: not locked and nobody queued
CanLockNow(lk) == ~lk.locked /\ lk.waiters = <<>>

\* ---------------------------------------------------------------- tasks
IdleTask == [pc |-> "idle", key |-> NoKey, current_time |-> 0, lock |-> NoLock,
             wf |-> NoWf, peers |-> {}]

InFlight(tks, k) == {u \in DOMAIN tks : tks[u].pc \in {"waiting", "creating"} /\ tks[u].key = k}

OverLimitOffByOne(wfs, max) == max # None /\ Len(wfs) > max + 1

\* the limit check of line 107
OverLimit(wfs, max) == max # None /\ Len(wfs) > max

\* lines 96-113 once the lock is held by task t (lock object l, already marked
\* locked in objs): an existing entry is refreshed and the call returns; a
\* missing one makes the task await create_workflow, holding the lock.
CriticalSection(t, k, ct, l, locks, objs, peers) ==
    LET i == IndexOf(WORKFLOWS, k) IN
    IF i # 0
    THEN LET tks == [tasks EXCEPT ![t] = [pc |-> "returned", key |-> k, current_time |-> ct,
                                          lock |-> NoLock, wf |-> WORKFLOWS[i].wf,
                                          peers |-> peers]]
         IN  /\ WORKFLOWS' = DictSet(WORKFLOWS, k, WORKFLOWS[i].wf, ct)
             /\ tasks' = tks
             /\ WORKFLOW_LOCKS' = locks
             /\ lockObjs' = Collect([objs EXCEPT ![l] = Released(@)], locks, tks)
    ELSE /\ tasks' = [tasks EXCEPT ![t] = [pc |-> "creating", key |-> k, current_time |-> ct,
                                           lock |-> l, wf |-> NoWf, peers |-> peers]]
         /\ WORKFLOW_LOCKS' = locks
         /\ lockObjs' = objs
         /\ UNCHANGED WORKFLOWS

\* _get_or_create_workflow, lines 87-94 (and on through the critical section when
\* the lock is free): conv is the conversation_id argument, NoKey for None
\* (calls are numbered in the order they are made)
Call(t, conv) ==
    /\ tasks[t].pc = "idle"
    /\ \A u \in Tasks : u < t => tasks[u].pc # "idle"
    /\ LET k == IF conv # NoKey THEN conv ELSE GenKey(t)
           ct == clock
           isNew == WORKFLOW_LOCKS[k] = NoLock
           l == IF isNew
                THEN CHOOSE x \in LockIds :
                        /\ x \notin Referenced(WORKFLOW_LOCKS, tasks)
                        /\ \A y \in LockIds : y < x => y \in Referenced(WORKFLOW_LOCKS, tasks)
                ELSE WORKFLOW_LOCKS[k]
           locks == [WORKFLOW_LOCKS EXCEPT ![k] = l]
           peers == InFlight(tasks, k)
       IN  IF CanLockNow(lockObjs[l])
           THEN CriticalSection(t, k, ct, l, locks,
                                [lockObjs EXCEPT ![l].locked = TRUE], peers)
           ELSE /\ tasks' = [tasks EXCEPT ![t] = [pc |-> "waiting", key |-> k,
                                                  current_time |-> ct, lock |-> l,
                                                  wf |-> NoWf, peers |-> peers]]
                /\ lockObjs' = [lockObjs EXCEPT ![l].waiters = Append(@, t)]
                /\ WORKFLOW_LOCKS' = locks
                /\ UNCHANGED WORKFLOWS
    /\ UNCHANGED <<MAX_WORKFLOWS, WORKFLOW_TTL, clock, pruneLog, storeVars, reqs, sideVars>>

\* a waiter woken by release() resumes in `async with lock` and enters the section
Acquire(t) ==
    /\ tasks[t].pc = "waiting"
    /\ LET l == tasks[t].lock IN
        /\ ~lockObjs[l].locked
        /\ lockObjs[l].waiters # <<>>
        /\ Head(lockObjs[l].waiters) = t
        /\ CriticalSection(t, tasks[t].key, tasks[t].current_time, l, WORKFLOW_LOCKS,
                           [lockObjs EXCEPT ![l] = [locked |-> TRUE, waiters |-> Tail(@.waiters)]],
                           tasks[t].peers)
    /\ UNCHANGED <<MAX_WORKFLOWS, WORKFLOW_TTL, clock, pruneLog, storeVars, reqs, sideVars>>

\* create_workflow returned: lines 104-113.  The new instance is named after the
\* task that created it (every call creates at most one).
CreateOk(t) ==
    /\ tasks[t].pc = "creating"
    /\ LET k == tasks[t].key
           l == tasks[t].lock
           inserted == DictSet(WORKFLOWS, k, t, tasks[t].current_time)
           after == IF OverLimit(inserted, MAX_WORKFLOWS)
                    THEN evict_lru_workflow(inserted, WORKFLOW_LOCKS)
                    ELSE [wfs |-> inserted, locks |-> WORKFLOW_LOCKS]
           tks == [tasks EXCEPT ![t].pc = "returned", ![t].wf = t, ![t].lock = NoLock]
       IN  /\ WORKFLOWS' = after.wfs
           /\ WORKFLOW_LOCKS' = after.locks
           /\ tasks' = tks
           /\ lockObjs' = Collect([lockObjs EXCEPT ![l] = Released(@)], after.locks, tks)
    /\ UNCHANGED <<MAX_WORKFLOWS, WORKFLOW_TTL, clock, pruneLog, storeVars, reqs, sideVars>>

\* create_workflow raised: `async with` releases the lock, the error propagates
CreateFail(t) ==
    /\ tasks[t].pc = "creating"
    /\ LET l == tasks[t].lock
           tks == [tasks EXCEPT ![t].pc = "raised", ![t].lock = NoLock]
       IN  /\ tasks' = tks
           /\ lockObjs' = Collect([lockObjs EXCEPT ![l] = Released(@)], WORKFLOW_LOCKS, tks)
    /\ UNCHANGED <<WORKFLOWS, WORKFLOW_LOCKS, MAX_WORKFLOWS, WORKFLOW_TTL, clock, pruneLog, storeVars, reqs, sideVars>>

\* one iteration of _cleanup_workflows: _prune_workflows() at time.time()
Prune ==
    /\ LET r == prune_workflows(WORKFLOWS, WORKFLOW_LOCKS, clock, WORKFLOW_TTL, MAX_WORKFLOWS)
       IN  /\ WORKFLOWS' = r.wfs
           /\ WORKFLOW_LOCKS' = r.locks
           /\ lockObjs' = Collect(lockObjs, r.locks, tasks)
           /\ pruneLog' = [expired |-> r.expired, over |-> r.over]
    /\ UNCHANGED <<MAX_WORKFLOWS, WORKFLOW_TTL, clock, tasks, storeVars, reqs, sideVars>>

\* time passes (a non-decreasing clock)
Tick ==
    /\ clock < MaxTime
    /\ clock' = clock + 1
    /\ UNCHANGED <<WORKFLOWS, WORKFLOW_LOCKS, lockObjs, MAX_WORKFLOWS, WORKFLOW_TTL, pruneLog,
                   tasks, storeVars, reqs, sideVars>>

\* no response yet
NoResp == [op |-> "none"]

\* asyncio.create_task(_cleanup_workflows()): the task exists and has not run
\* yet; last and prev are the outcomes of its latest two iterations, turn flips
\* at every call of _prune_workflows
NewSweep == [pc |-> "created", last |-> "none", prev |-> "none", turn |-> 0]

\* the module's globals after import, the database after create_all (all
\* empty), lifespan past its startup
StoreInit ==
    /\ CONV_RUNS = [k \in AllKeys |-> NoRun]
    /\ workflowRows = <<>>
    /\ runRows = <<>>
    /\ auditRows = <<>>
    /\ reqs = [t \in Tasks |-> IdleReq]
    /\ pruneLog = [expired |-> {}, over |-> {}]
    /\ resp = NoResp
    /\ sweep = NewSweep
    /\ life = "serving"

Init ==
    /\ StoreInit
    /\ WORKFLOWS = <<>>
    /\ WORKFLOW_LOCKS = [k \in AllKeys |-> NoLock]
    /\ lockObjs = [l \in LockIds |-> FreshLockObj]
    /\ MAX_WORKFLOWS \in CapChoices
    /\ WORKFLOW_TTL \in TTLChoices
    /\ clock = 0
    /\ tasks = [t \in Tasks |-> IdleTask]

\* the calls contend for one conversation id or come without one (a fresh key each)
Next ==
    \/ \E t \in Tasks, conv \in {"k1", NoKey} : Call(t, conv)
    \/ \E t \in Tasks : Acquire(t)
    \/ \E t \in Tasks : CreateOk(t)
    \/ \E t \in Tasks : CreateFail(t)
    \/ Prune
    \/ Tick


Spec == Init /\ [][Next]_vars

\* ------------------------------------------------- prune on any registry
\* _prune_workflows is a function of the registry, the time and the
\* configuration: SpecPrune starts it from every registry over PruneKeys
\* (as the unit test does, which fills WORKFLOWS and sets the limits directly).
PruneKeys == <<"k1", "k2", "conv_1">>
PruneCaps == {None, 0, 1, 2}
PruneTTLs == {1, 2}

\* the sessions of keys order[1..n] with timestamps ts[1..n]; instance i is session i's
RegistryOf(order, ts) ==
    [i \in 1..Len(order) |-> Entry(PruneKeys[order[i]], i, ts[i])]

Orders ==
    {o \in UNION {[1..n -> 1..Len(PruneKeys)] : n \in 0..Len(PruneKeys)} :
        \A i, j \in DOMAIN o : i # j => o[i] # o[j]}

InitPrune ==
    /\ StoreInit
    /\ \E o \in Orders : \E ts \in [DOMAIN o -> 0..MaxTime] :
          WORKFLOWS = RegistryOf(o, ts)
    /\ \E L \in SUBSET (1..Len(PruneKeys)) :
          WORKFLOW_LOCKS = [k \in AllKeys |->
              IF \E i \in L : PruneKeys[i] = k
              THEN CHOOSE i \in L : PruneKeys[i] = k
              ELSE NoLock]
    /\ lockObjs = [l \in LockIds |-> FreshLockObj]
    /\ MAX_WORKFLOWS \in PruneCaps
    /\ WORKFLOW_TTL \in PruneTTLs
    /\ clock \in 0..MaxTime
    /\ tasks = [t \in Tasks |-> IdleTask]

NextPrune ==
    \/ Prune
    \/ Tick

SpecPrune == InitPrune /\ [][NextPrune]_vars

\* ------------------------------------------- a creation on any registry
\* One _get_or_create_workflow call, at any time, on a registry filled directly
\* as the unit test fills it (sessions with any timestamps, any limit; the
\* sessions put in that way have no lock entry, as keep_a..keep_c of the test).
InitEvict ==
    /\ InitPrune
    /\ WORKFLOW_LOCKS = [k \in AllKeys |-> NoLock]
    /\ WORKFLOW_TTL = 1

NextEvict ==
    \/ \E conv \in ConvIds \cup {NoKey} : Call(1, conv)
    \/ CreateOk(1)

SpecEvict == InitEvict /\ [][NextEvict]_vars

\* ------------------------------------------------------------ the store
audit_overwriting(rows, run_id, type_, detail, now) ==
    IF rows = <<>>
    THEN <<[run_id |-> run_id, type |-> type_, detail |-> detail, created_at |-> now]>>
    ELSE [rows EXCEPT ![Len(rows)] =
             [run_id |-> run_id, type |-> type_, detail |-> detail, created_at |-> now]]

audit_prepending(rows, run_id, type_, detail, now) ==
    <<[run_id |-> run_id, type |-> type_, detail |-> detail, created_at |-> now]>> \o rows

\* _audit: one row appended, committed on its own
audit(rows, run_id, type_, detail, now) ==
    Append(rows, [run_id |-> run_id, type |-> type_, detail |-> detail, created_at |-> now])

HasWorkflowRow(rows, entity_id) == \E i \in 1..Len(rows) : rows[i].id = entity_id

\* json.dumps of a config object; a config is written by the text between its
\* braces, NoText for none or the empty object
JsonDumps(config) == "{" \o config \o "}"

ensure_workflow_row_upsert(rows, entity_id, name, config, now) ==
    IF HasWorkflowRow(rows, entity_id)
    THEN [i \in 1..Len(rows) |->
            IF rows[i].id = entity_id
            THEN [rows[i] EXCEPT !.name = IF name # NoText THEN name ELSE @,
                                 !.config = IF config # NoText THEN JsonDumps(config) ELSE @]
            ELSE rows[i]]
    ELSE Append(rows, [id |-> entity_id,
                       name |-> IF name # NoText THEN name ELSE entity_id,
                       config |-> JsonDumps(config), created_at |-> now])

\* _ensure_workflow_row(entity_id, name, config): the table afterwards; NoText
\* stands for an absent name or config (name or entity_id, config or {})
ensure_workflow_row_as(rows, entity_id, name, config, now) ==
    IF HasWorkflowRow(rows, entity_id)
    THEN rows
    ELSE Append(rows, [id |-> entity_id,
                       name |-> IF name # NoText THEN name ELSE entity_id,
                       config |-> JsonDumps(config), created_at |-> now])

\* _ensure_workflow_row(entity_id), as the streaming handlers call it
ensure_workflow_row(rows, entity_id, now) ==
    ensure_workflow_row_as(rows, entity_id, NoText, NoText, now)

\* s.get(Workflow, entity_id), for an id that has a row
WorkflowRow(rows, entity_id) == rows[CHOOSE i \in 1..Len(rows) : rows[i].id = entity_id]

\* the place of a run row that was removed from the database from outside the
\* process: ids are uuid4 values and are not used again, so the place stays
Gone == [id |-> NoRun]

HasRunRowNever(rows, run_id) == FALSE

\* s.get(Run, run_id)
HasRunRow(rows, run_id) == run_id \in 1..Len(rows) /\ rows[run_id] # Gone

ensure_run_row_trusting_index(conv_runs, rows, au, entity_id, conv_key, now) ==
    LET run_id == conv_runs[conv_key] IN
    IF run_id # NoRun
    THEN [conv_runs |-> conv_runs, runs |-> rows, audits |-> au, run_id |-> run_id]
    ELSE LET new_id == Len(rows) + 1
             r == [id |-> new_id, workflow_id |-> entity_id, status |-> "running",
                   started_at |-> now, completed_at |-> NoTime, current_step |-> NoText,
                   entity_id |-> entity_id, conv_key |-> conv_key, last_error |-> NoText]
         IN  [conv_runs |-> [conv_runs EXCEPT ![conv_key] = new_id],
              runs |-> Append(rows, r),
              audits |-> Append(au, [run_id |-> new_id, type |-> "run_started",
                                     detail |-> [entity_id |-> entity_id, conv_key |-> conv_key],
                                     created_at |-> now]),
              run_id |-> new_id]

\* _ensure_run_row: the indexed run if its row exists, else a new row with a
\* fresh id, the index entry and a run_started audit row
ensure_run_row(conv_runs, rows, au, entity_id, conv_key, now) ==
    LET run_id == conv_runs[conv_key] IN
    IF run_id # NoRun /\ HasRunRow(rows, run_id)
    THEN [conv_runs |-> conv_runs, runs |-> rows, audits |-> au, run_id |-> run_id]
    ELSE LET new_id == Len(rows) + 1
             r == [id |-> new_id, workflow_id |-> entity_id, status |-> "running",
                   started_at |-> now, completed_at |-> NoTime, current_step |-> NoText,
                   entity_id |-> entity_id, conv_key |-> conv_key, last_error |-> NoText]
         IN  [conv_runs |-> [conv_runs EXCEPT ![conv_key] = new_id],
              runs |-> Append(rows, r),
              audits |-> audit(au, new_id, "run_started",
                               [entity_id |-> entity_id, conv_key |-> conv_key], now),
              run_id |-> new_id]

ensure_run_row_index_first(conv_runs, rows, au, entity_id, conv_key, now, at) ==
    IF at = "run"
    THEN [conv_runs |-> [conv_runs EXCEPT ![conv_key] = Len(rows) + 1],
          runs |-> rows, audits |-> au, run_id |-> NoRun]
    ELSE [ensure_run_row(conv_runs, rows, au, entity_id, conv_key, now)
             EXCEPT !.audits = au, !.run_id = NoRun]

\* _ensure_run_row when a commit raises on the creating path: at "run" the
\* commit of line 578 (nothing is written and no index entry made), at "audit"
\* the commit inside _audit, line 580 (the row and the index entry stay, the
\* run_started row is not written); the error propagates, no id is returned
ensure_run_row_failing(conv_runs, rows, au, entity_id, conv_key, now, at) ==
    IF at = "run"
    THEN [conv_runs |-> conv_runs, runs |-> rows, audits |-> au, run_id |-> NoRun]
    ELSE [ensure_run_row(conv_runs, rows, au, entity_id, conv_key, now)
             EXCEPT !.audits = au, !.run_id = NoRun]

\* the fields _update_run_status writes to the row (lines 598-604)
UpdatedRun(r, status, current_step, error, completed, now) ==
    [r EXCEPT !.status = status,
              !.current_step = IF current_step # NoText THEN current_step ELSE @,
              !.last_error = IF error # NoText THEN error ELSE @,
              !.completed_at = IF completed THEN now ELSE @]

\* _update_run_status: nothing without an indexed run or without its row; else
\* the row is updated and a status audit row appended
update_run_status(conv_runs, rows, au, conv_key, status, current_step, error, completed, now) ==
    LET run_id == conv_runs[conv_key] IN
    IF run_id = NoRun \/ ~HasRunRow(rows, run_id)
    THEN [runs |-> rows, audits |-> au]
    ELSE [runs |-> [rows EXCEPT ![run_id] =
                        UpdatedRun(@, status, current_step, error, completed, now)],
          audits |-> audit(au, run_id, "status",
                           [status |-> status, current_step |-> current_step,
                            error |-> error], now)]

\* ------------------------------------------------ translation and framing
EventKinds == {"RequestInfoEvent", "WorkflowOutputEvent", "WorkflowFailedEvent",
               "WorkflowStatusEvent"}

\* the "[DONE]" item of the queue (a string in the code, where every other item is a dict)
DoneItem == [type |-> "[DONE]"]

TranslateAll(ev) == <<[type |-> "response.trace.complete", request_info |-> ev.data]>>

\* the wire events _stream_events sends for one workflow event: one or none.
\* ev.data stands for the event's payload (request, conversation, failure message).
Translate(ev) ==
    IF ev.kind = "RequestInfoEvent"
    THEN <<[type |-> "response.trace.complete", request_info |-> ev.data]>>
    ELSE IF ev.kind = "WorkflowOutputEvent"
    THEN <<[type |-> "response.output_text.delta", delta |-> ev.data]>>
    ELSE IF ev.kind = "WorkflowFailedEvent"
    THEN <<[type |-> "error", message |-> ev.data]>>
    ELSE <<>>

\* sse_iter: b"data: [DONE]\n\n" for the sentinel, "data: " + json.dumps(event) + "\n\n" else
DoneFrame == [prefix |-> "data: ", body |-> "[DONE]", json |-> <<>>, suffix |-> "\n\n"]
Frame(item) ==
    IF item = DoneItem
    THEN DoneFrame
    ELSE [prefix |-> "data: ", body |-> "json", json |-> <<item>>, suffix |-> "\n\n"]

IsDoneNever(item) == FALSE

\* the test of line 330: the drain loop stops after yielding "[DONE]"
IsDone(item) == item = DoneItem

\* -------------------------------------------------------------- handlers
ServeTasks == {1, 2}
Entities == {"m1", "m2"}

\* responses / continue_workflow after _get_or_create_workflow returned: the
\* rows are ensured and the streaming response is returned, gen() not yet started
HandlerRows(t, entity) ==
    /\ tasks[t].pc = "returned"
    /\ reqs[t].pc = "idle"
    /\ LET wrows == ensure_workflow_row(workflowRows, entity, clock)
           r == ensure_run_row(CONV_RUNS, runRows, auditRows, entity, tasks[t].key, clock)
       IN  /\ workflowRows' = wrows
           /\ CONV_RUNS' = r.conv_runs
           /\ runRows' = r.runs
           /\ auditRows' = r.audits
           /\ reqs' = [reqs EXCEPT ![t].pc = "responding", ![t].entity = entity]
    /\ UNCHANGED <<regVars, sideVars>>

\* gen() starts: the run is marked running and _stream_events awaits the first event
GenStart(t) ==
    /\ reqs[t].pc = "responding"
    /\ LET u == update_run_status(CONV_RUNS, runRows, auditRows, tasks[t].key,
                                  "running", NoText, NoText, FALSE, clock)
       IN  /\ runRows' = u.runs
           /\ auditRows' = u.audits
    /\ reqs' = [reqs EXCEPT ![t].pc = "pulling"]
    /\ UNCHANGED <<regVars, CONV_RUNS, workflowRows, sideVars>>

\* the workflow yields its next event: it is translated and put on the queue
\* (the queue is unbounded: put never waits)
PullEvent(t, kind) ==
    /\ reqs[t].pc = "pulling"
    /\ Len(reqs[t].events) < MaxEvents
    /\ LET ev == [kind |-> kind, data |-> Len(reqs[t].events) + 1]
       IN  reqs' = [reqs EXCEPT ![t].events = Append(@, ev),
                                ![t].q = @ \o Translate(ev)]
    /\ UNCHANGED <<regVars, storeVars, sideVars>>

\* the workflow's stream ends: _stream_events sends "[DONE]", the run is marked
\* completed, gen() puts its own "[DONE]" and enters the drain loop, which
\* takes the first item and yields it to sse_iter, which frames it
StreamEnd(t) ==
    /\ reqs[t].pc = "pulling"
    /\ LET u == update_run_status(CONV_RUNS, runRows, auditRows, tasks[t].key,
                                  "completed", NoText, NoText, TRUE, clock)
           q == (reqs[t].q \o <<DoneItem>>) \o <<DoneItem>>
       IN  /\ runRows' = u.runs
           /\ auditRows' = u.audits
           /\ reqs' = [reqs EXCEPT ![t].pc = "yielded", ![t].q = Tail(q),
                                   ![t].item = Head(q),
                                   ![t].out = Append(@, Frame(Head(q)))]
    /\ UNCHANGED <<regVars, CONV_RUNS, workflowRows, sideVars>>

\* the transport took the frame and asks for the next: gen() resumes after its
\* yield, stops if the item was "[DONE]" (its queue and the record of the
\* request's stream go with it), else takes and yields the next item
Resume(t) ==
    /\ reqs[t].pc = "yielded"
    /\ IF IsDone(reqs[t].item)
       THEN reqs' = [reqs EXCEPT ![t] = [IdleReq EXCEPT !.pc = "closed"]]
       ELSE /\ reqs[t].q # <<>>      \* await q.get() waits for an item
            /\ reqs' = [reqs EXCEPT ![t].q = Tail(@), ![t].item = Head(reqs[t].q),
                                    ![t].out = Append(@, Frame(Head(reqs[t].q)))]
    /\ UNCHANGED <<regVars, storeVars, sideVars>>

\* the server: requests for any conversation, served one after the other, under
\* the default configuration; the clock is read as it stands between requests
InitServe ==
    /\ StoreInit
    /\ WORKFLOWS = <<>>
    /\ WORKFLOW_LOCKS = [k \in AllKeys |-> NoLock]
    /\ lockObjs = [l \in LockIds |-> FreshLockObj]
    /\ MAX_WORKFLOWS = None
    /\ WORKFLOW_TTL \in TTLChoices
    /\ clock = 0
    /\ tasks = [t \in Tasks |-> IdleTask]

\* no request is being served
Quiet ==
    \A t \in Tasks :
        \/ tasks[t].pc \in {"idle", "raised"}
        \/ tasks[t].pc = "returned" /\ reqs[t].pc = "closed"

NextServe ==
    \/ \E t \in ServeTasks, conv \in ConvIds \cup {NoKey} : Quiet /\ Call(t, conv)
    \/ \E t \in ServeTasks : CreateOk(t)
    \/ \E t \in ServeTasks : CreateFail(t)
    \/ \E t \in ServeTasks, entity \in Entities : HandlerRows(t, entity)
    \/ \E t \in ServeTasks : GenStart(t)
    \/ \E t \in ServeTasks, kind \in EventKinds : PullEvent(t, kind)
    \/ \E t \in ServeTasks : StreamEnd(t)
    \/ \E t \in ServeTasks : Resume(t)
    \/ Quiet /\ Tick

SpecServe == InitServe /\ [][NextServe]_vars

\* ------------------------------------------------- overlapping requests
\* Two requests for one conversation, in flight together.  A handler runs from
\* the return of _get_or_create_workflow through _ensure_run_row without
\* suspending, so nothing else runs while a call has returned and its rows are
\* not yet ensured.
Handled == \A t \in Tasks : ~(tasks[t].pc = "returned" /\ reqs[t].pc = "idle")

ConcKinds == {"WorkflowOutputEvent", "WorkflowStatusEvent"}

NextConc ==
    \/ \E t \in ServeTasks : Handled /\ Call(t, "k1")
    \/ \E t \in ServeTasks : Handled /\ Acquire(t)
    \/ \E t \in ServeTasks : Handled /\ CreateOk(t)
    \/ \E t \in ServeTasks : Handled /\ CreateFail(t)
    \/ \E t \in ServeTasks : HandlerRows(t, "m1")
    \/ \E t \in ServeTasks : Handled /\ GenStart(t)
    \/ \E t \in ServeTasks, kind \in ConcKinds : Handled /\ PullEvent(t, kind)
    \/ \E t \in ServeTasks : Handled /\ StreamEnd(t)
    \/ \E t \in ServeTasks : Handled /\ Resume(t)

SpecConc == InitServe /\ [][NextConc]_vars

\* ------------------------------------------------- the two endpoints
\* POST /v1/responses and POST /v1/workflows/{entity_id}/send_responses, served
\* one request after the other while the sweep prunes.  The two handlers differ
\* only in the stream they iterate (run_stream, send_responses_streaming).
Endpoints == {"responses", "send_responses"}

\* bodies with conversation absent, "k1", {"id": "k1"}, {}, 7, []
Conversations ==
    {NoConversation, Conversation("str", FALSE, "k1"), Conversation("dict", TRUE, "k1"),
     Conversation("dict", FALSE, NoText), Conversation("int", FALSE, NoText),
     Conversation("list", FALSE, NoText)}

\* _get_conversation_id: None is NoKey
get_conversation_id(conversation) ==
    IF conversation.type = "str" THEN conversation.value
    ELSE IF conversation.type = "dict"
         THEN IF conversation.has_id THEN conversation.value ELSE NoKey
         ELSE NoKey

\* the body is validated into OpenAIRequest / SendResponsesBody (conversation:
\* Optional[Any] takes any value) and the handler is about to run
Accept(t, kind, conversation) ==
    /\ tasks[t].pc = "idle"
    /\ \A u \in Tasks : reqs[u].kind = "none"
    /\ reqs' = [reqs EXCEPT ![t].kind = kind, ![t].conversation = conversation]
    /\ UNCHANGED <<regVars, storeVars, sideVars>>

\* the handler's first line: await _get_or_create_workflow(entity_id,
\* _get_conversation_id(conversation))
Serve(t) ==
    /\ reqs[t].kind # "none"
    /\ Call(t, get_conversation_id(reqs[t].conversation))

NextApi ==
    \/ \E t \in ServeTasks, kind \in Endpoints, c \in Conversations : Accept(t, kind, c)
    \/ \E t \in ServeTasks : Serve(t)
    \/ \E t \in ServeTasks : CreateOk(t)
    \/ \E t \in ServeTasks : HandlerRows(t, "m1")
    \/ \E t \in ServeTasks : GenStart(t)
    \/ \E t \in ServeTasks, kind \in ConcKinds : PullEvent(t, kind)
    \/ \E t \in ServeTasks : StreamEnd(t)
    \/ \E t \in ServeTasks : Resume(t)
    \/ Handled /\ Prune
    \/ Handled /\ Tick

SpecApi == InitServe /\ [][NextApi]_vars

\* ------------------------------------------------- requests that end early
\* A request's generator can end before its stream does: the workflow's stream
\* raises inside `async for` of _stream_events, or the client disconnects and
\* the transport cancels the task iterating gen().  gen() has no try/except/
\* finally: either way the exception leaves gen() at the await it was at.

\* async for ev in async_iter raises: the exception goes through
\* _stream_events and gen(); the lines after line 323 do not run
StreamRaise(t) ==
    /\ reqs[t].pc = "pulling"
    /\ reqs' = [reqs EXCEPT ![t] = [IdleReq EXCEPT !.pc = "failed"]]
    /\ UNCHANGED <<regVars, storeVars, sideVars>>

\* the client is gone: CancelledError at the await of line 323 (the stream) or
\* the generator is closed at its yield of line 329
ClientGone(t) ==
    /\ reqs[t].pc \in {"pulling", "yielded"}
    /\ reqs' = [reqs EXCEPT ![t] = [IdleReq EXCEPT !.pc = "cancelled"]]
    /\ UNCHANGED <<regVars, storeVars, sideVars>>

\* the request of task t is over, however it ended
Ended(t) == tasks[t].pc = "returned" /\ reqs[t].pc \in {"closed", "failed", "cancelled"}

\* no request is being served
NoneServed == \A t \in Tasks : tasks[t].pc = "idle" \/ Ended(t)

NextLive ==
    \/ \E t \in ServeTasks, conv \in ConvIds : NoneServed /\ Call(t, conv)
    \/ \E t \in ServeTasks : CreateOk(t)
    \/ \E t \in ServeTasks : HandlerRows(t, "m1")
    \/ \E t \in ServeTasks : GenStart(t)
    \/ \E t \in ServeTasks, kind \in ConcKinds : PullEvent(t, kind)
    \/ \E t \in ServeTasks : StreamEnd(t)
    \/ \E t \in ServeTasks : StreamRaise(t)
    \/ \E t \in ServeTasks : ClientGone(t)
    \/ \E t \in ServeTasks : Resume(t)

\* the event loop runs every task that can run; a workflow's stream ends, by
\* exhaustion or by an exception; the transport takes every frame or goes away
LiveFair ==
    \A t \in ServeTasks :
        /\ WF_vars(CreateOk(t))
        /\ WF_vars(HandlerRows(t, "m1"))
        /\ WF_vars(GenStart(t))
        /\ WF_vars(StreamEnd(t) \/ StreamRaise(t) \/ ClientGone(t))
        /\ WF_vars(Resume(t) \/ ClientGone(t))

SpecLive == InitServe /\ [][NextLive]_vars /\ LiveFair

\* ------------------------------------------------- sessions come and go
\* Requests for any conversation, served one after the other, with a session
\* limit or without, while the sweep prunes: a key's session can expire or be
\* evicted between two requests for the key.
NextReuse ==
    \/ \E t \in Tasks, conv \in ConvIds : Quiet /\ Call(t, conv)
    \/ \E t \in Tasks : CreateOk(t)
    \/ \E t \in Tasks : HandlerRows(t, "m1")
    \/ \E t \in Tasks : GenStart(t)
    \/ \E t \in Tasks : StreamEnd(t)
    \/ \E t \in Tasks : Resume(t)
    \/ Handled /\ Prune
    \/ Handled /\ Tick

SpecReuse == Init /\ [][NextReuse]_vars

\* ------------------------------------------------- the translators
\* _to_openai_output_event and _to_openai_trace_request_info are functions of
\* the event.  A Python str is a sequence of tokens (a character, or a word
\* that is never taken apart); an Optional[str] says whether it is None.
MaxMsgs == 2        \* messages in a conversation payload

PyNone == [is_none |-> TRUE, value |-> <<>>]
PyStr(s) == [is_none |-> FALSE, value |-> s]

\* str.isspace() characters
Whitespace == {" ", "\t", "\n"}

Role(value) == [value |-> value]
Roles == {Role(<<"user">>), Role(<<"assistant">>)}
AuthorNames == {PyNone, PyStr(<<>>), PyStr(<<"Alice">>)}
Texts == {<<>>, <<" ">>, <<"h", "i">>, <<" ", "h", " ">>}

\* ChatMessage(role, author_name=None, text="")
ChatMessages == [role : Roles, author_name : AuthorNames, text : Texts]

ConversationPayloads == UNION {[1..n -> ChatMessages] : n \in 0..MaxMsgs}

\* str.lstrip(), str.rstrip()
RECURSIVE lstrip(_)
lstrip(s) == IF s # <<>> /\ Head(s) \in Whitespace THEN lstrip(Tail(s)) ELSE s

RECURSIVE rstrip(_)
rstrip(s) ==
    IF s # <<>> /\ s[Len(s)] \in Whitespace THEN rstrip(SubSeq(s, 1, Len(s) - 1)) ELSE s

strip_nothing(s) == s

\* str.strip()
strip(s) == rstrip(lstrip(s))

\* m.author_name or m.role.value: None and "" are falsy
AuthorOrRole(m) ==
    IF ~m.author_name.is_none /\ m.author_name.value # <<>>
    THEN m.author_name.value
    ELSE m.role.value

\* the loop of lines 261-264: lines.append(f"{who}: {m.text}") for the messages
\* whose stripped text is not empty
RECURSIVE OutputLines(_, _)
OutputLines(conversation, lines) ==
    IF conversation = <<>> THEN lines
    ELSE LET m == Head(conversation)
         IN  OutputLines(Tail(conversation),
                         IF strip(m.text) # <<>>
                         THEN Append(lines, (AuthorOrRole(m) \o <<":", " ">>) \o m.text)
                         ELSE lines)

\* sep.join(lines)
RECURSIVE Join(_, _)
Join(lines, sep) ==
    IF lines = <<>> THEN <<>>
    ELSE IF Len(lines) = 1 THEN lines[1]
    ELSE (Join(SubSeq(lines, 1, Len(lines) - 1), sep) \o sep) \o lines[Len(lines)]

NoContent == <<"(no content)">>

\* item_id is "msg_" or "item_" and eight hex digits of a uuid4, left out here
to_openai_output_event(conversation) ==
    LET lines == OutputLines(conversation, <<>>)
        text == IF lines # <<>> THEN Join(lines, <<"\n">>) ELSE NoContent
    IN  [type |-> "response.output_text.delta", delta |-> text, item_id |-> "msg_",
         output_index |-> 0, content_index |-> 0, sequence_number |-> 0]

serialize_chat_message(msg) ==
    [role |-> msg.role.value, author_name |-> msg.author_name, text |-> msg.text]

\* a class, whose __name__ is taken, or an object without __name__, whose str() is
TypeObjects == {[has_name |-> TRUE, name |-> "MockRequest", str |-> "<class 'MockRequest'>"],
                [has_name |-> FALSE, name |-> "", str |-> "namespace()"]}

\* getattr(ty, "__name__", str(ty))
TypeName(ty) == IF ty.has_name THEN ty.name ELSE ty.str

\* the payloads of a RequestInfoEvent: a HandoffUserInputRequest, or an object
\* of another class with the same attributes
RequestClasses == {"HandoffUserInputRequest", "SimpleNamespace"}

RequestPayloads ==
    [class : RequestClasses, conversation : ConversationPayloads, prompt : {<<"Need", " ", "help">>},
     awaiting_agent_id : {<<"triage_agent">>}, source_executor_id : {<<"triage_agent">>}]

isinstance_any(req) == TRUE

\* isinstance(req, HandoffUserInputRequest)
isinstance_handoff(req) == req.class = "HandoffUserInputRequest"

to_openai_trace_request_info(ev) ==
    LET req == ev.data
        handoff == isinstance_handoff(req)
        conversation == IF handoff
                        THEN [i \in 1..Len(req.conversation) |->
                                 serialize_chat_message(req.conversation[i])]
                        ELSE <<>>
        prompt == IF handoff THEN req.prompt ELSE <<>>
        awaiting_agent_id == IF handoff THEN req.awaiting_agent_id ELSE <<>>
        source_executor_id == IF handoff THEN req.source_executor_id ELSE ev.source_executor_id
    IN  [type |-> "response.trace.complete",
         data |-> [trace_type |-> "workflow_info",
                   event_type |-> "RequestInfoEvent",
                   data |-> [request_info |->
                       [request_id |-> ev.request_id,
                        source_executor_id |-> source_executor_id,
                        request_type |-> TypeName(ev.request_type),
                        response_type |-> TypeName(ev.response_type),
                        data |-> [conversation |-> conversation,
                                  awaiting_agent_id |-> awaiting_agent_id,
                                  prompt |-> prompt,
                                  source_executor_id |-> source_executor_id]]]],
         item_id |-> "item_", output_index |-> 0, sequence_number |-> 0]

\* the events _stream_events translates with the two functions
OutputEvents == [kind : {"WorkflowOutputEvent"}, data : ConversationPayloads]

RequestInfoEvents ==
    [kind : {"RequestInfoEvent"}, data : RequestPayloads, request_id : {"req_123"},
     source_executor_id : {<<"gateway">>}, request_type : TypeObjects,
     response_type : TypeObjects]

\* line 281: _to_openai_output_event(ev.data)
ToOutputEvent ==
    /\ resp.op = "event"
    /\ resp.ev.kind = "WorkflowOutputEvent"
    /\ resp' = [op |-> "to_openai_output_event", ev |-> resp.ev,
                out |-> to_openai_output_event(resp.ev.data)]
    /\ UNCHANGED <<regVars, storeVars, reqs, sweep, life>>

\* line 279: _to_openai_trace_request_info(ev)
ToTraceRequestInfo ==
    /\ resp.op = "event"
    /\ resp.ev.kind = "RequestInfoEvent"
    /\ resp' = [op |-> "to_openai_trace_request_info", ev |-> resp.ev,
                out |-> to_openai_trace_request_info(resp.ev)]
    /\ UNCHANGED <<regVars, storeVars, reqs, sweep, life>>

\* an event of either kind is about to be translated
InitTranslate ==
    /\ CONV_RUNS = [k \in AllKeys |-> NoRun]
    /\ workflowRows = <<>>
    /\ runRows = <<>>
    /\ auditRows = <<>>
    /\ reqs = [t \in Tasks |-> IdleReq]
    /\ pruneLog = [expired |-> {}, over |-> {}]
    /\ \E ev \in OutputEvents \cup RequestInfoEvents : resp = [op |-> "event", ev |-> ev]
    /\ sweep = NewSweep
    /\ life = "serving"
    /\ WORKFLOWS = <<>>
    /\ WORKFLOW_LOCKS = [k \in AllKeys |-> NoLock]
    /\ lockObjs = [l \in LockIds |-> FreshLockObj]
    /\ MAX_WORKFLOWS = None
    /\ WORKFLOW_TTL = 1
    /\ clock = 0
    /\ tasks = [t \in Tasks |-> IdleTask]

NextTranslate ==
    \/ ToOutputEvent
    \/ ToTraceRequestInfo

SpecTranslate == InitTranslate /\ [][NextTranslate]_vars

\* ------------------------------------------------- the store, call by call
\* The store helpers and the run endpoints are synchronous: each call is one
\* step.  SpecStore applies them in any order to any conversation key; resp
\* keeps the call and what it returned.
MaxAudit == 3       \* audit rows written in one behaviour

StoreFrame == UNCHANGED <<regVars, reqs, sweep, life>>

Creates(conv_key) == ~(CONV_RUNS[conv_key] # NoRun /\ HasRunRow(runRows, CONV_RUNS[conv_key]))

\* _ensure_run_row(entity_id, conv_key)
EnsureRunRow(entity_id, conv_key) ==
    /\ Creates(conv_key) => Len(auditRows) < MaxAudit
    /\ LET r == ensure_run_row(CONV_RUNS, runRows, auditRows, entity_id, conv_key, clock)
       IN  /\ CONV_RUNS' = r.conv_runs
           /\ runRows' = r.runs
           /\ auditRows' = r.audits
           /\ resp' = [op |-> "ensure_run_row", key |-> conv_key, run_id |-> r.run_id]
    /\ UNCHANGED workflowRows
    /\ StoreFrame

\* _ensure_run_row(entity_id, conv_key) with a store write that raises
EnsureRunRowFails(entity_id, conv_key, at) ==
    /\ Creates(conv_key)
    /\ LET r == ensure_run_row_failing(CONV_RUNS, runRows, auditRows, entity_id, conv_key,
                                       clock, at)
       IN  /\ CONV_RUNS' = r.conv_runs
           /\ runRows' = r.runs
           /\ auditRows' = r.audits
           /\ resp' = [op |-> "ensure_run_row", key |-> conv_key, error |-> at]
    /\ UNCHANGED workflowRows
    /\ StoreFrame

\* _update_run_status(conv_key, status, completed=completed), as gen() calls it
UpdateRunStatus(conv_key, status, completed) ==
    /\ Len(auditRows) < MaxAudit
    /\ LET u == update_run_status(CONV_RUNS, runRows, auditRows, conv_key, status,
                                  NoText, NoText, completed, clock)
       IN  /\ runRows' = u.runs
           /\ auditRows' = u.audits
    /\ resp' = [op |-> "update_run_status", key |-> conv_key, status |-> status]
    /\ UNCHANGED <<CONV_RUNS, workflowRows>>
    /\ StoreFrame

RecordHandoffUnchecked(run_id, from_agent, to_agent, reason) ==
    /\ Len(auditRows) < MaxAudit
    /\ auditRows' = Append(auditRows,
                           [run_id |-> run_id, type |-> "handoff_initiated",
                            detail |-> [from_agent |-> from_agent, to_agent |-> to_agent,
                                        reason |-> reason],
                            created_at |-> clock])
    /\ resp' = [op |-> "record_handoff", run_id |-> run_id, code |-> 200,
                body |-> [run_id |-> run_id, status |-> "accepted"]]
    /\ UNCHANGED <<CONV_RUNS, workflowRows, runRows>>
    /\ UNCHANGED <<regVars, reqs, sweep, life>>

\* POST /v1/runs/{run_id}/handoff
RecordHandoff(run_id, from_agent, to_agent, reason) ==
    /\ Len(auditRows) < MaxAudit
    /\ IF ~HasRunRow(runRows, run_id)
       THEN /\ resp' = [op |-> "record_handoff", run_id |-> run_id, code |-> 404,
                        body |-> [error |-> "not_found"]]
            /\ UNCHANGED auditRows
       ELSE /\ auditRows' = audit(auditRows, run_id, "handoff_initiated",
                                  [from_agent |-> from_agent, to_agent |-> to_agent,
                                   reason |-> reason], clock)
            /\ resp' = [op |-> "record_handoff", run_id |-> run_id, code |-> 200,
                        body |-> [run_id |-> run_id, status |-> "accepted"]]
    /\ UNCHANGED <<CONV_RUNS, workflowRows, runRows>>
    /\ StoreFrame

\* select(AuditLog).where(AuditLog.run_id == run_id): the rows of the run, as the
\* table holds them
AuditOf(rows, run_id) == SelectSeq(rows, LAMBDA a : a.run_id = run_id)

\* GET /v1/runs/{run_id}/audit
ListAudit(run_id) ==
    /\ resp' = [op |-> "list_audit", run_id |-> run_id, code |-> 200,
                body |-> [i \in 1..Len(AuditOf(auditRows, run_id)) |->
                            [type |-> AuditOf(auditRows, run_id)[i].type,
                             detail |-> AuditOf(auditRows, run_id)[i].detail,
                             created_at |-> AuditOf(auditRows, run_id)[i].created_at]]]
    /\ UNCHANGED storeVars
    /\ StoreFrame

\* a run row disappears from the database while the process and its CONV_RUNS
\* index live on (the database is outside the process: BRIDGE_DB_URL names it and
\* SessionLocal can be bound to another one, as the unit test does)
RowLost(run_id) ==
    /\ HasRunRow(runRows, run_id)
    /\ runRows' = [runRows EXCEPT ![run_id] = Gone]
    /\ resp' = NoResp
    /\ UNCHANGED <<CONV_RUNS, workflowRows, auditRows>>
    /\ StoreFrame

RunIds == 1..(Len(runRows) + 1)

\* the server after its first request created the session of k1 at time 0
\* (Call and CreateOk of task 1), before any store write
InitStore ==
    /\ StoreInit
    /\ WORKFLOWS = <<Entry("k1", 1, 0)>>
    /\ WORKFLOW_LOCKS = [k \in AllKeys |-> IF k = "k1" THEN 1 ELSE NoLock]
    /\ lockObjs = [l \in LockIds |-> FreshLockObj]
    /\ MAX_WORKFLOWS = None
    /\ WORKFLOW_TTL \in TTLChoices
    /\ clock = 0
    /\ tasks = [t \in Tasks |->
                  IF t = 1 THEN [IdleTask EXCEPT !.pc = "returned", !.key = "k1", !.wf = 1]
                  ELSE IdleTask]

\* the helpers and endpoints called in any order, while the sweep prunes
NextStore ==
    \/ Prune
    \/ \E k \in ConvIds : EnsureRunRow("m1", k)
    \/ \E k \in ConvIds : UpdateRunStatus(k, "running", FALSE)
    \/ \E k \in ConvIds : UpdateRunStatus(k, "completed", TRUE)
    \/ \E r \in RunIds : RecordHandoff(r, "a1", "a2", NoText)
    \/ \E r \in RunIds : ListAudit(r)
    \/ Tick

SpecStore == InitStore /\ [][NextStore]_vars

\* the calls of a request's path, with store writes that may raise
NextStoreFault ==
    \/ \E e \in Entities, k \in ConvIds : EnsureRunRow(e, k)
    \/ \E e \in Entities, k \in ConvIds, at \in {"run", "audit"} : EnsureRunRowFails(e, k, at)
    \/ \E k \in ConvIds : UpdateRunStatus(k, "running", FALSE)
    \/ \E k \in ConvIds : UpdateRunStatus(k, "completed", TRUE)
    \/ \E r \in RunIds : RecordHandoff(r, "a1", "a2", NoText)

SpecStoreFault == InitServe /\ [][NextStoreFault]_vars

\* the calls of a request's path, over a database that may lose run rows
NextStoreLoss ==
    \/ \E e \in Entities, k \in ConvIds : EnsureRunRow(e, k)
    \/ \E k \in ConvIds : UpdateRunStatus(k, "running", FALSE)
    \/ \E k \in ConvIds : UpdateRunStatus(k, "completed", TRUE)
    \/ \E r \in RunIds : RowLost(r)
    \/ Tick

SpecStoreLoss == InitServe /\ [][NextStoreLoss]_vars

\* ------------------------------------------------------ workflow records
\* _ensure_workflow_row(entity_id, name, config), called as the handlers do
\* (defaults), as POST /v1/workflows does (the name is the id) and as the unit
\* test does (a name of its own); it returns the record
EnsureWorkflowRow(entity_id, name, config) ==
    /\ LET rows == ensure_workflow_row_as(workflowRows, entity_id, name, config, clock)
       IN  /\ workflowRows' = rows
           /\ resp' = [op |-> "ensure_workflow_row", id |-> entity_id, name |-> name,
                       config |-> config, body |-> WorkflowRow(rows, entity_id)]
    /\ UNCHANGED <<CONV_RUNS, runRows, auditRows>>
    /\ StoreFrame

Names == {NoText, "m1", "demo"}
Configs == {NoText, "foo:bar"}

NextWorkflowRows ==
    \/ \E e \in Entities, n \in Names, c \in Configs : EnsureWorkflowRow(e, n, c)
    \/ Tick

SpecWorkflowRows == InitServe /\ [][NextWorkflowRows]_vars

\* ------------------------------------------------- the background sweep
SweepFrame == UNCHANGED <<MAX_WORKFLOWS, WORKFLOW_TTL, clock, tasks, storeVars, reqs, resp, life>>

Iterated(sw, outcome) ==
    [sw EXCEPT !.prev = sw.last, !.last = outcome, !.turn = 1 - sw.turn]

\* the task takes its first step: while True, try, await asyncio.sleep(60)
SweepStart ==
    /\ life = "serving"
    /\ sweep.pc = "created"
    /\ sweep' = [sweep EXCEPT !.pc = "sleeping"]
    /\ UNCHANGED <<WORKFLOWS, WORKFLOW_LOCKS, lockObjs, pruneLog>>
    /\ SweepFrame

\* the sleep ends and _prune_workflows() returns; the loop sleeps again
SweepOk ==
    /\ life = "serving"
    /\ sweep.pc = "sleeping"
    /\ LET r == prune_workflows(WORKFLOWS, WORKFLOW_LOCKS, clock, WORKFLOW_TTL, MAX_WORKFLOWS)
       IN  /\ WORKFLOWS' = r.wfs
           /\ WORKFLOW_LOCKS' = r.locks
           /\ lockObjs' = Collect(lockObjs, r.locks, tasks)
           /\ pruneLog' = [expired |-> r.expired, over |-> r.over]
    /\ sweep' = Iterated(sweep, "pruned")
    /\ SweepFrame

SweepRaiseDies(at) ==
    /\ life = "serving"
    /\ sweep.pc = "sleeping"
    /\ sweep' = [Iterated(sweep, "raised") EXCEPT !.pc = "done"]
    /\ UNCHANGED <<WORKFLOWS, WORKFLOW_LOCKS, lockObjs, pruneLog>>
    /\ UNCHANGED <<MAX_WORKFLOWS, WORKFLOW_TTL, clock, tasks, storeVars, reqs, resp, life>>

\* the sleep ends and _prune_workflows() raises an Exception, caught and printed
\* by the loop, which sleeps again.  It raises at the expiry test of line 128,
\* before any removal, or at the limit test of line 136, after the expired
\* sessions were removed.
SweepRaise(at) ==
    /\ life = "serving"
    /\ sweep.pc = "sleeping"
    /\ LET r == IF at = "limit"
                THEN prune_workflows(WORKFLOWS, WORKFLOW_LOCKS, clock, WORKFLOW_TTL, None)
                ELSE [wfs |-> WORKFLOWS, locks |-> WORKFLOW_LOCKS, expired |-> {}, over |-> {}]
       IN  /\ WORKFLOWS' = r.wfs
           /\ WORKFLOW_LOCKS' = r.locks
           /\ lockObjs' = Collect(lockObjs, r.locks, tasks)
           /\ pruneLog' = [expired |-> r.expired, over |-> r.over]
    /\ sweep' = Iterated(sweep, "raised")
    /\ SweepFrame

\* lifespan after its yield: _cleanup_task.cancel(), then await _cleanup_task
Shutdown ==
    /\ life = "serving"
    /\ life' = "awaiting"
    /\ UNCHANGED <<regVars, storeVars, reqs, resp, sweep>>

SweepCancelSwallowed ==
    /\ life = "awaiting"
    /\ sweep.pc \in {"created", "sleeping"}
    /\ sweep' = [sweep EXCEPT !.pc = "sleeping", !.last = "raised"]
    /\ UNCHANGED <<regVars, storeVars, reqs, resp, life>>

\* the cancelled task's next step: CancelledError is raised at the sleep (also
\* when the sleep had ended but the task had not resumed) and the loop breaks;
\* a task that never ran ends without entering the loop
SweepCancelled ==
    /\ life = "awaiting"
    /\ sweep.pc \in {"created", "sleeping"}
    /\ sweep' = [sweep EXCEPT !.pc = "done"]
    /\ UNCHANGED <<regVars, storeVars, reqs, resp, life>>

\* the task is done: lifespan's await returns (or raises CancelledError, passed over)
LifeStopped ==
    /\ life = "awaiting"
    /\ sweep.pc = "done"
    /\ life' = "stopped"
    /\ UNCHANGED <<regVars, storeVars, reqs, resp, sweep>>

Serving == life = "serving"

NextSweep ==
    \/ \E t \in ServeTasks, conv \in ConvIds : Serving /\ Call(t, conv)
    \/ \E t \in ServeTasks : Acquire(t)
    \/ \E t \in ServeTasks : CreateOk(t)
    \/ Tick
    \/ SweepStart
    \/ SweepOk
    \/ \E at \in {"expired", "limit"} : SweepRaise(at)
    \/ Shutdown
    \/ SweepCancelled
    \/ LifeStopped

\* the event loop runs a task that can run: a sleep ends, a cancelled task gets
\* its step, an await on a finished task returns
SweepFair ==
    /\ WF_vars(SweepStart)
    /\ WF_vars(SweepOk \/ \E at \in {"expired", "limit"} : SweepRaise(at))
    /\ WF_vars(SweepCancelled)
    /\ WF_vars(LifeStopped)

SpecSweep == Init /\ [][NextSweep]_vars /\ SweepFair

\* ------------------------------------------------------------- claims
Returned(t) == tasks[t].pc = "returned"
Created(t) == tasks[t].pc = "returned" /\ tasks[t].wf = t
NoFactoryFailure == \A t \in Tasks : tasks[t].pc # "raised"

TtlExpired == {i \in 1..Len(WORKFLOWS) : clock - WORKFLOWS[i].ts > WORKFLOW_TTL}
TtlKept == (1..Len(WORKFLOWS)) \ TtlExpired
NumOver ==
    IF MAX_WORKFLOWS # None /\ Cardinality(TtlKept) > MAX_WORKFLOWS
    THEN Cardinality(TtlKept) - MAX_WORKFLOWS
    ELSE 0
PruneStep == tasks' = tasks /\ clock' = clock

\* C4: prune(now) removes exactly the sessions with now - ts > TTL, then, over
\* the limit, the (count - MAX_WORKFLOWS) remaining ones with the smallest
\* timestamps; the sessions kept are untouched and keep their order.
C4_PruneExact ==
    [][PruneStep =>
        \E kept \in SUBSET TtlKept :
            /\ Cardinality(kept) = Cardinality(TtlKept) - NumOver
            /\ \A i \in TtlKept \ kept : \A j \in kept : WORKFLOWS[i].ts <= WORKFLOWS[j].ts
            /\ Len(WORKFLOWS') = Cardinality(kept)
            /\ \A i \in kept : \E j \in 1..Len(WORKFLOWS') : WORKFLOWS'[j] = WORKFLOWS[i]
            /\ \A i1, i2 \in kept : i1 < i2 =>
                  IndexOf(WORKFLOWS', WORKFLOWS[i1].key) < IndexOf(WORKFLOWS', WORKFLOWS[i2].key)
      ]_vars

\* C4 witness: a prune has dropped an expired session, then an unexpired one
\* for the limit, and has kept a session that is exactly TTL old
C4_Witness ==
    /\ pruneLog.expired # {}
    /\ pruneLog.over # {}
    /\ \E i \in 1..Len(WORKFLOWS) : clock - WORKFLOWS[i].ts = WORKFLOW_TTL

\* C5: with MAX_WORKFLOWS set, the registry never holds more sessions than it.
C5_WithinCapacity ==
    MAX_WORKFLOWS # None => Len(WORKFLOWS) <= MAX_WORKFLOWS

\* C5 witness: the limit is reached and a second creation for another key has evicted
C5_Witness ==
    /\ MAX_WORKFLOWS = 1
    /\ Len(WORKFLOWS) = 1
    /\ \E t1, t2 \in Tasks : t1 # t2 /\ Created(t1) /\ Created(t2)

C7_FailureReleasesLock ==
    /\ [](\A l \in LockIds : lockObjs[l].locked =>
            \E t \in Tasks : tasks[t].pc = "creating" /\ tasks[t].lock = l)
    /\ [][\A t \in Tasks :
            (tasks[t].pc # "creating" /\ tasks'[t].pc = "creating") => WORKFLOWS' = WORKFLOWS]_vars
    /\ [][\A t \in Tasks :
            (tasks[t].pc = "creating" /\ tasks'[t].pc = "raised")
                => /\ WORKFLOWS' = WORKFLOWS
                   /\ WORKFLOW_LOCKS' = WORKFLOW_LOCKS
                   /\ ~lockObjs'[tasks[t].lock].locked
                   /\ tasks'[t].wf = NoWf]_vars

\* C7 witness: a creation failed while another call of the key was waiting on the
\* lock, and that call then took the lock and created the session
C7_Witness ==
    \E t1, t2 \in Tasks :
        /\ tasks[t1].pc = "raised"
        /\ t1 \in tasks[t2].peers
        /\ Created(t2)
        /\ IndexOf(WORKFLOWS, tasks[t2].key) # 0

\* the number of "data: [DONE]" frames among the frames delivered
DoneCount(out) == Cardinality({i \in 1..Len(out) : out[i] = DoneFrame})

\* the client has received the whole stream of request t
Delivered(t) == reqs[t].pc = "yielded" /\ reqs[t].item = DoneItem

\* C8: the frames a client receives hold "data: [DONE]" at most once and only as
\* the last frame, and a stream is closed only after exactly one was delivered.
C8_DoneOnceAndLast ==
    /\ [](\A t \in Tasks :
            /\ DoneCount(reqs[t].out) <= 1
            /\ \A i \in 1..Len(reqs[t].out) :
                  reqs[t].out[i] = DoneFrame => i = Len(reqs[t].out)
            /\ Delivered(t) => DoneCount(reqs[t].out) = 1)
    /\ [][\A t \in Tasks :
            (reqs[t].pc # "closed" /\ reqs'[t].pc = "closed")
                => /\ DoneCount(reqs[t].out) = 1
                   /\ reqs[t].out[Len(reqs[t].out)] = DoneFrame]_vars

\* C8 witness: a stream with wire events was delivered up to its "[DONE]" while
\* the second "[DONE]" item is still on the queue
C8_Witness ==
    \E t \in Tasks :
        /\ Delivered(t)
        /\ reqs[t].q = <<DoneItem>>
        /\ Len(reqs[t].out) >= 2

WireKinds == {"RequestInfoEvent", "WorkflowOutputEvent", "WorkflowFailedEvent"}
Translated(events) == SelectSeq(events, LAMBDA e : e.kind \in WireKinds)
WireMatches(w, ev) ==
    \/ ev.kind = "RequestInfoEvent" /\ w.type = "response.trace.complete"
                                    /\ w.request_info = ev.data
    \/ ev.kind = "WorkflowOutputEvent" /\ w.type = "response.output_text.delta"
                                       /\ w.delta = ev.data
    \/ ev.kind = "WorkflowFailedEvent" /\ w.type = "error" /\ w.message = ev.data

\* C9: the wire events are the translations of the request-info, output and
\* failure events, one each and in the order of the input; other events give
\* none; the frames delivered are those wire events, one frame each, in order.
C9_OrderPreserving ==
    \A t \in Tasks :
        LET src == Translated(reqs[t].events) IN
        /\ reqs[t].pc = "pulling" =>
              /\ Len(reqs[t].q) = Len(src)
              /\ Len(reqs[t].q) <= Len(reqs[t].events)
              /\ \A i \in 1..Len(src) : WireMatches(reqs[t].q[i], src[i])
        /\ reqs[t].pc = "yielded" =>
              /\ Len(reqs[t].out) <= Len(src) + 1
              /\ \A i \in 1..Len(reqs[t].out) :
                    IF i <= Len(src)
                    THEN /\ reqs[t].out[i].body = "json"
                         /\ Len(reqs[t].out[i].json) = 1
                         /\ WireMatches(reqs[t].out[i].json[1], src[i])
                    ELSE reqs[t].out[i] = DoneFrame
        /\ Delivered(t) => Len(reqs[t].out) = Len(src) + 1

\* C9 witness: a stream of an ignored event between two translated ones was
\* delivered whole
C9_Witness ==
    \E t \in Tasks :
        /\ Delivered(t)
        /\ Len(reqs[t].events) = 2
        /\ reqs[t].events[1].kind = "WorkflowStatusEvent"
        /\ reqs[t].events[2].kind = "WorkflowOutputEvent"
        /\ Len(reqs[t].out) = 2

HasFailure(t) == \E i \in 1..Len(reqs[t].events) : reqs[t].events[i].kind = "WorkflowFailedEvent"
RunOf(k) == runRows[CONV_RUNS[k]]

\* C10: once a stream with a WorkflowFailedEvent is delivered, it holds an error
\* frame and ends with "[DONE]", and the run of the conversation is not
\* "completed" and has last_error set.
C10_FailureRecorded ==
    \A t \in Tasks :
        (Delivered(t) /\ HasFailure(t)) =>
            /\ \E i \in 1..Len(reqs[t].out) :
                  /\ reqs[t].out[i].body = "json"
                  /\ reqs[t].out[i].json[1].type = "error"
            /\ reqs[t].out[Len(reqs[t].out)] = DoneFrame
            /\ CONV_RUNS[tasks[t].key] # NoRun
            /\ RunOf(tasks[t].key).status # "completed"
            /\ RunOf(tasks[t].key).last_error # NoText

\* C11: a request's run is "running" when its stream is first awaited, and at
\* the step that hands "[DONE]" to the client the run of the conversation is
\* "completed" with completed_at set.
C11_CompletedAtDone ==
    [][\A t \in Tasks :
         /\ (reqs[t].pc = "responding" /\ reqs'[t].pc = "pulling")
               => /\ CONV_RUNS'[tasks[t].key] # NoRun
                  /\ runRows'[CONV_RUNS'[tasks[t].key]].status = "running"
         /\ (DoneCount(reqs[t].out) = 0 /\ DoneCount(reqs'[t].out) = 1)
               => /\ CONV_RUNS'[tasks[t].key] # NoRun
                  /\ runRows'[CONV_RUNS'[tasks[t].key]].status = "completed"
                  /\ runRows'[CONV_RUNS'[tasks[t].key]].completed_at # NoTime]_vars

\* a step that is the call op of a store helper or endpoint
StoreCall(op) == resp'.op = op /\ (resp' # resp \/ storeVars' # storeVars)

\* C12: _ensure_run_row(entity, K) returns the run indexed under K, writing
\* nothing, when K has an indexed run whose row exists; otherwise (no indexed
\* run, or its row missing) it creates one new "running" run with a fresh id,
\* indexes it under K and appends one run_started entry for it.
C12_RunReuse ==
    [][\A k \in ConvIds :
         (StoreCall("ensure_run_row") /\ resp'.key = k) =>
            IF CONV_RUNS[k] # NoRun /\ HasRunRow(runRows, CONV_RUNS[k])
            THEN /\ resp'.run_id = CONV_RUNS[k]
                 /\ storeVars' = storeVars
            ELSE /\ resp'.run_id = Len(runRows) + 1
                 /\ resp'.run_id # CONV_RUNS[k]
                 /\ Len(runRows') = Len(runRows) + 1
                 /\ SubSeq(runRows', 1, Len(runRows)) = runRows
                 /\ runRows'[resp'.run_id].status = "running"
                 /\ runRows'[resp'.run_id].conv_key = k
                 /\ CONV_RUNS' = [CONV_RUNS EXCEPT ![k] = resp'.run_id]
                 /\ Len(auditRows') = Len(auditRows) + 1
                 /\ SubSeq(auditRows', 1, Len(auditRows)) = auditRows
                 /\ auditRows'[Len(auditRows')].type = "run_started"
                 /\ auditRows'[Len(auditRows')].run_id = resp'.run_id]_vars

\* C12 witness: a key whose first run row was lost got a second run, that run
\* was completed, and a further call for the key returned it again
C12_Witness ==
    /\ resp.op = "ensure_run_row"
    /\ \E i \in 1..Len(runRows) : runRows[i] = Gone
    /\ HasRunRow(runRows, resp.run_id)
    /\ runRows[resp.run_id].status = "completed"
    /\ Len(AuditOf(auditRows, resp.run_id)) = 2

\* C13: every key of the CONV_RUNS index maps to a run whose row is in the
\* store, also after a store write failed part-way through _ensure_run_row.
C13_IndexedRunExists ==
    \A k \in AllKeys : CONV_RUNS[k] # NoRun => HasRunRow(runRows, CONV_RUNS[k])

\* C13 witness: for one key the commit of the audit row failed (its run is
\* indexed and stored without a run_started entry), for another the commit of
\* the run row has just failed (nothing indexed)
C13_Witness ==
    /\ resp.op = "ensure_run_row"
    /\ "error" \in DOMAIN resp
    /\ resp.error = "run"
    /\ CONV_RUNS[resp.key] = NoRun
    /\ \E k \in ConvIds :
          /\ CONV_RUNS[k] # NoRun
          /\ AuditOf(auditRows, CONV_RUNS[k]) = <<>>

\* C14: a call of _update_run_status for a key with an indexed run appends
\* exactly one status entry for that run, whether or not the run's row is
\* found; for a key without an indexed run it changes nothing.
C14_StatusAlwaysAudited ==
    [][\A k \in ConvIds :
         (StoreCall("update_run_status") /\ resp'.key = k) =>
            IF CONV_RUNS[k] # NoRun
            THEN /\ Len(auditRows') = Len(auditRows) + 1
                 /\ SubSeq(auditRows', 1, Len(auditRows)) = auditRows
                 /\ auditRows'[Len(auditRows')].type = "status"
                 /\ auditRows'[Len(auditRows')].run_id = CONV_RUNS[k]
            ELSE storeVars' = storeVars]_vars

\* C15: record_handoff for a run id without a row answers not_found and leaves
\* the audit log and every record as they are; for a known run it appends one
\* handoff_initiated entry for that run and changes no run record.
C15_Handoff ==
    [][\A r \in RunIds :
         (StoreCall("record_handoff") /\ resp'.run_id = r) =>
            IF ~HasRunRow(runRows, r)
            THEN /\ resp'.code = 404
                 /\ resp'.body = [error |-> "not_found"]
                 /\ storeVars' = storeVars
            ELSE /\ resp'.code = 200
                 /\ Len(auditRows') = Len(auditRows) + 1
                 /\ SubSeq(auditRows', 1, Len(auditRows)) = auditRows
                 /\ auditRows'[Len(auditRows')].type = "handoff_initiated"
                 /\ auditRows'[Len(auditRows')].run_id = r
                 /\ runRows' = runRows
                 /\ CONV_RUNS' = CONV_RUNS
                 /\ workflowRows' = workflowRows]_vars

\* C15 witness: a handoff was recorded for a known run and the latest call, for
\* an unknown run id, was answered not_found
C15_Witness ==
    /\ resp.op = "record_handoff"
    /\ resp.code = 404
    /\ \E i \in 1..Len(auditRows) : auditRows[i].type = "handoff_initiated"

\* C16: the audit log only grows at its end: every step leaves the entries
\* written so far in place with their run id, type, detail and created_at.
C16_AppendOnly ==
    [][/\ Len(auditRows') >= Len(auditRows)
       /\ SubSeq(auditRows', 1, Len(auditRows)) = auditRows]_vars

\* C16 witness: a log of a run start, a status update and a handoff has been
\* listed after a prune removed the expired session
C16_Witness ==
    /\ resp.op = "list_audit"
    /\ Len(resp.body) = 3
    /\ \E i \in 1..Len(auditRows) : auditRows[i].type = "handoff_initiated"
    /\ \E i \in 1..Len(auditRows) : auditRows[i].type = "status"
    /\ pruneLog.expired # {}

C18_WorkflowRowIdempotent ==
    /\ [][/\ \A e \in Entities :
               (StoreCall("ensure_workflow_row") /\ resp'.id = e
                    /\ HasWorkflowRow(workflowRows, e)) =>
                  /\ workflowRows' = workflowRows
                  /\ resp'.body = WorkflowRow(workflowRows, e)
          /\ Len(workflowRows') >= Len(workflowRows)
          /\ SubSeq(workflowRows', 1, Len(workflowRows)) = workflowRows]_vars
    /\ [](\A i, j \in 1..Len(workflowRows) :
            workflowRows[i].id = workflowRows[j].id => i = j)

\* C18 witness: the record of m1 was written with a name and a config at time
\* 0; a call at time 2 without either returned it as written
C18_Witness ==
    /\ resp.op = "ensure_workflow_row"
    /\ resp.id = "m1" /\ resp.name = NoText /\ resp.config = NoText
    /\ resp.body = [id |-> "m1", name |-> "demo", config |-> "{foo:bar}", created_at |-> 0]
    /\ clock = 2
    /\ Len(workflowRows) = 2

\* C19: an iteration of the sweep whose _prune_workflows raised leaves the task
\* alive and sleeping, and while the server is not shut down a later iteration
\* calls _prune_workflows again.
C19_SweepSurvives ==
    /\ []((sweep.last = "raised" /\ life = "serving") => sweep.pc = "sleeping")
    /\ \A b \in {0, 1} :
          (sweep.last = "raised" /\ sweep.turn = b) ~> (sweep.turn # b \/ life # "serving")

\* C19 witness: the iteration after a failed one has pruned an expired session
C19_Witness ==
    /\ sweep.prev = "raised"
    /\ sweep.last = "pruned"
    /\ pruneLog.expired # {}
    /\ life = "serving"

\* C20: once lifespan has cancelled the sweep, the sweep never calls
\* _prune_workflows again, the task ends, and lifespan's await of it returns.
C20_SweepStops ==
    /\ [][life # "serving" =>
            /\ sweep'.turn = sweep.turn
            /\ WORKFLOWS' = WORKFLOWS \/ \E t \in Tasks : tasks'[t] # tasks[t]]_vars
    /\ [](life = "stopped" => sweep.pc = "done")
    /\ (life = "awaiting") ~> (sweep.pc = "done")
    /\ (life = "awaiting") ~> (life = "stopped")

\* C20 witness: lifespan has stopped after cancelling a sweep that had pruned
\* and was asleep while a session was about to expire
C20_Witness ==
    /\ life = "stopped"
    /\ sweep.pc = "done"
    /\ sweep.last = "pruned"
    /\ \E i \in 1..Len(WORKFLOWS) : IsExpired(WORKFLOWS[i].ts, clock, WORKFLOW_TTL)

C22_ResumesExisting ==
    \A t, u \in ServeTasks :
        (/\ u < t
         /\ Created(u)
         /\ tasks[u].key = tasks[t].key
         /\ reqs[t].kind = "send_responses"
         /\ Returned(t)) => ~Created(t)

\* C23: completed_at of a run record is written at most once: once it holds a
\* time, no later request or status update for the run's conversation changes it.
C23_CompletedAtOnce ==
    [][\A i \in 1..Len(runRows) :
         (HasRunRow(runRows, i) /\ runRows[i].completed_at # NoTime) =>
            /\ HasRunRow(runRows', i)
            /\ runRows'[i].completed_at = runRows[i].completed_at]_vars

\* the conversation is neither absent, nor a string, nor an object with an id
Malformed(conversation) ==
    /\ conversation.type \notin {"none", "str"}
    /\ ~(conversation.type = "dict" /\ conversation.has_id)

\* C24: a request with a malformed conversation is rejected before a session is
\* created for it and before any row of the store is written for it.
C24_MalformedRejected ==
    \A t \in ServeTasks :
        Malformed(reqs[t].conversation) =>
            /\ tasks[t].pc = "idle"
            /\ reqs[t].pc = "idle"

\* C25: nothing is buffered across events: when the handler pulls the next
\* event from the workflow's stream, the wire event of every event pulled
\* before it has been handed to the transport.
C25_NoBuffering ==
    [][\A t \in ServeTasks :
         Len(reqs'[t].events) > Len(reqs[t].events) =>
            Len(reqs[t].out) >= Len(Translated(reqs[t].events))]_vars

\* C26: no two requests drive the session and run of one conversation key at
\* the same time (each between its "running" and its "completed" update).
Driving(t) == tasks[t].pc = "returned" /\ reqs[t].pc = "pulling"

C26_KeySerialized ==
    \A t, u \in ServeTasks :
        (t # u /\ Driving(t) /\ Driving(u)) => tasks[t].key # tasks[u].key

\* the text the claim gives an output event: one line "<author_name or role>:
\* <text>" per message that counts, in order, with newlines between
\* the lines; blank tells whether a text of whitespace only counts as empty
Counts(m, blank) ==
    IF blank THEN \E i \in 1..Len(m.text) : m.text[i] \notin Whitespace
    ELSE m.text # <<>>

LineOf(m) ==
    ((IF m.author_name.is_none \/ m.author_name.value = <<>>
      THEN m.role.value ELSE m.author_name.value) \o <<":", " ">>) \o m.text

RECURSIVE DeltaOf(_, _)
DeltaOf(conversation, blank) ==
    IF conversation = <<>> THEN <<>>
    ELSE LET rest == DeltaOf(Tail(conversation), blank)
             m == Head(conversation)
         IN  IF ~Counts(m, blank) THEN rest
             ELSE IF \E i \in 2..Len(conversation) : Counts(conversation[i], blank)
                  THEN (LineOf(m) \o <<"\n">>) \o rest
                  ELSE LineOf(m)

OutputEventIs(blank) ==
    resp.op = "to_openai_output_event" =>
        /\ resp.out.type = "response.output_text.delta"
        /\ IF \E i \in 1..Len(resp.ev.data) : Counts(resp.ev.data[i], blank)
           THEN resp.out.delta = DeltaOf(resp.ev.data, blank)
           ELSE resp.out.delta = NoContent

\* C27 as stated: the delta has one line per message with non-empty text, and
\* is "(no content)" exactly when no message has non-empty text.
C27_OutputDeltaNonEmpty == OutputEventIs(FALSE)

\* C27: _to_openai_output_event gives one response.output_text.delta event
\* whose delta is the lines "<author_name or role>: <text>" of the messages whose
\* text is not blank (not empty after stripping whitespace), in conversation
\* order, joined by newlines, each with its text as it is; the delta is
\* "(no content)" exactly when every message's text is empty or whitespace only.
C27_OutputDelta == OutputEventIs(TRUE)

\* C27 witness: a conversation of a whitespace-only message and a message with
\* text and no author name was translated to the one line of the second
C27_Witness ==
    /\ resp.op = "to_openai_output_event"
    /\ Len(resp.ev.data) = 2
    /\ resp.ev.data[1].text = <<" ">>
    /\ resp.ev.data[2].text = <<" ", "h", " ">>
    /\ resp.ev.data[2].author_name = PyNone
    /\ resp.out.delta = <<"user", ":", " ", " ", "h", " ">>

\* C28: _to_openai_trace_request_info gives one response.trace.complete event
\* with the event's request id, the source executor id and the names of the
\* request and response types; for a HandoffUserInputRequest payload it carries
\* the payload's prompt, awaiting agent id and every message as {role,
\* author_name, text} in order; for any other payload the conversation is
\* empty and prompt and awaiting agent id are empty strings.
C28_TraceRequestInfo ==
    resp.op = "to_openai_trace_request_info" =>
        LET ev == resp.ev
            req == resp.ev.data
            info == resp.out.data.data.request_info
        IN  /\ resp.out.type = "response.trace.complete"
            /\ info.request_id = ev.request_id
            /\ ev.request_type.has_name => info.request_type = ev.request_type.name
            /\ ev.response_type.has_name => info.response_type = ev.response_type.name
            /\ IF req.class = "HandoffUserInputRequest"
               THEN /\ info.data.prompt = req.prompt
                    /\ info.data.awaiting_agent_id = req.awaiting_agent_id
                    /\ info.source_executor_id = req.source_executor_id
                    /\ info.data.source_executor_id = req.source_executor_id
                    /\ Len(info.data.conversation) = Len(req.conversation)
                    /\ \A i \in 1..Len(req.conversation) :
                          /\ info.data.conversation[i].role = req.conversation[i].role.value
                          /\ info.data.conversation[i].author_name = req.conversation[i].author_name
                          /\ info.data.conversation[i].text = req.conversation[i].text
               ELSE /\ info.data.conversation = <<>>
                    /\ info.data.prompt = <<>>
                    /\ info.data.awaiting_agent_id = <<>>
                    /\ info.source_executor_id = ev.source_executor_id
                    /\ info.data.source_executor_id = ev.source_executor_id

\* C28 witness: a handoff request with two different messages, one without an
\* author name, was translated
C28_Witness ==
    /\ resp.op = "to_openai_trace_request_info"
    /\ resp.ev.data.class = "HandoffUserInputRequest"
    /\ Len(resp.ev.data.conversation) = 2
    /\ resp.ev.data.conversation[1].author_name = PyStr(<<"Alice">>)
    /\ resp.ev.data.conversation[2].author_name = PyNone
    /\ resp.ev.data.conversation[1].role # resp.ev.data.conversation[2].role
    /\ Len(resp.out.data.data.request_info.data.conversation) = 2

\* the call of task t enters its critical section in this step
Enters(t) == tasks[t].pc \in {"idle", "waiting"} /\ tasks'[t].pc \in {"returned", "creating"}

\* C29: a call that finds its key registered invokes no factory, sets that
\* key's timestamp to the time the call captured, keeps the key's instance and
\* leaves every other session and the set of registered keys as they were.
C29_RefreshOnly ==
    [][\A t \in Tasks :
         (Enters(t) /\ IndexOf(WORKFLOWS, tasks'[t].key) # 0) =>
            LET k == tasks'[t].key
                captured == IF tasks[t].pc = "idle" THEN clock ELSE tasks[t].current_time
            IN  /\ tasks'[t].pc = "returned"
                /\ tasks'[t].wf = WORKFLOWS[IndexOf(WORKFLOWS, k)].wf
                /\ Len(WORKFLOWS') = Len(WORKFLOWS)
                /\ \A i \in 1..Len(WORKFLOWS) : \E j \in 1..Len(WORKFLOWS') :
                      /\ WORKFLOWS'[j].key = WORKFLOWS[i].key
                      /\ WORKFLOWS'[j].wf = WORKFLOWS[i].wf
                      /\ WORKFLOWS'[j].ts = IF WORKFLOWS[i].key = k THEN captured
                                            ELSE WORKFLOWS[i].ts]_vars

\* C29 witness: a call found its key registered beside another session and
\* gave it a later timestamp than the other's, the instance being another call's
C29_Witness ==
    \E t \in Tasks : \E i, j \in 1..Len(WORKFLOWS) :
        /\ Returned(t) /\ ~Created(t)
        /\ WORKFLOWS[i].key = tasks[t].key
        /\ WORKFLOWS[i].wf = tasks[t].wf
        /\ WORKFLOWS[i].ts = tasks[t].current_time
        /\ i # j
        /\ WORKFLOWS[j].ts < WORKFLOWS[i].ts

\* the sessions of a registry, as a set
Sessions(wfs) == {wfs[i] : i \in 1..Len(wfs)}

\* C30: when a creation takes the session count over MAX_WORKFLOWS, exactly one
\* session goes, one with the least timestamp of all sessions registered at that
\* moment (the new one among them); every other session stays as it was.
C30_EvictsOneLru ==
    [][\A t \in Tasks :
         (tasks[t].pc = "creating" /\ tasks'[t].pc = "returned") =>
            LET all == {e \in Sessions(WORKFLOWS) : e.key # tasks[t].key}
                         \cup {Entry(tasks[t].key, tasks'[t].wf, tasks[t].current_time)}
            IN  (MAX_WORKFLOWS # None /\ Cardinality(all) > MAX_WORKFLOWS) =>
                    \E e \in all :
                        /\ \A f \in all : e.ts <= f.ts
                        /\ Sessions(WORKFLOWS') = all \ {e}
                        /\ Len(WORKFLOWS') = Cardinality(all) - 1]_vars

\* C30 witness: with a limit of 2 and two sessions registered, a creation put
\* in a third session that was the oldest of the three, and it was the one evicted
C30_Witness ==
    /\ MAX_WORKFLOWS = 2
    /\ Len(WORKFLOWS) = 2
    /\ tasks[1].pc = "returned"
    /\ IndexOf(WORKFLOWS, tasks[1].key) = 0
    /\ \A i \in 1..Len(WORKFLOWS) : WORKFLOWS[i].ts > tasks[1].current_time

\* C31: _prune_workflows is idempotent: pruning again at the same time, right
\* after a prune, leaves the registry and the lock table as the first prune
\* left them.
C31_PruneIdempotent ==
    [][PruneStep =>
        LET again == prune_workflows(WORKFLOWS', WORKFLOW_LOCKS', clock', WORKFLOW_TTL',
                                     MAX_WORKFLOWS')
        IN  /\ again.wfs = WORKFLOWS'
            /\ again.locks = WORKFLOW_LOCKS'
            /\ again.expired = {}
            /\ again.over = {}]_vars

\* C31 witness: a prune took two sessions for the limit and kept one
C31_Witness ==
    /\ Cardinality(pruneLog.over) = 2
    /\ Len(WORKFLOWS) = 1
    /\ MAX_WORKFLOWS = 1

\* the keys registered in a registry
KeysOf(wfs) == {wfs[i].key : i \in 1..Len(wfs)}

\* C32: prune and eviction leave CONV_RUNS and every stored record alone, and
\* the next request for a key whose session was removed gets a new instance
\* and the key's old run: no run row and no audit entry is added for it.
C32_RunOutlivesSession ==
    [][/\ KeysOf(WORKFLOWS) \ KeysOf(WORKFLOWS') # {} =>
            /\ CONV_RUNS' = CONV_RUNS
            /\ workflowRows' = workflowRows
            /\ runRows' = runRows
            /\ auditRows' = auditRows
       /\ \A t \in Tasks :
            (/\ reqs[t].pc = "idle" /\ reqs'[t].pc = "responding"
             /\ Created(t)
             /\ CONV_RUNS[tasks[t].key] \in 1..Len(runRows)
             /\ runRows[CONV_RUNS[tasks[t].key]].id = CONV_RUNS[tasks[t].key]) =>
                /\ CONV_RUNS' = CONV_RUNS
                /\ runRows' = runRows
                /\ auditRows' = auditRows]_vars

\* C32 witness: with a limit of 1 and no time passed, the third request came
\* for the key of the first, whose session the second had evicted; it got a new
\* instance, and the key has the run and the run_started entry of the first
C32_Witness ==
    /\ MAX_WORKFLOWS = 1
    /\ clock = 0
    /\ \E t, u \in Tasks :
        /\ u < t
        /\ Created(u) /\ Created(t)
        /\ tasks[u].key = tasks[t].key
        /\ reqs[t].pc = "responding"
        /\ CONV_RUNS[tasks[t].key] = 1
        /\ Len(SelectSeq(runRows, LAMBDA r : r.conv_key = tasks[t].key)) = 1
        /\ Len(SelectSeq(auditRows, LAMBDA a : a.run_id = 1 /\ a.type = "run_started")) = 1

\* C33: a step in which prune or eviction removes keys from WORKFLOWS removes
\* the lock entries of those keys too, and no lock entry of a key whose session
\* it keeps.
C33_LocksFollowSessions ==
    [][KeysOf(WORKFLOWS) \ KeysOf(WORKFLOWS') # {} =>
        \A k \in KeysOf(WORKFLOWS) :
            IF k \in KeysOf(WORKFLOWS')
            THEN WORKFLOW_LOCKS'[k] = WORKFLOW_LOCKS[k]
            ELSE WORKFLOW_LOCKS'[k] = NoLock]_vars

\* C33 witness: a prune removed the expired session of k1, whose lock entry is
\* gone, and kept another session, whose lock entry is in place
C33_Witness ==
    /\ pruneLog.expired = {"k1"}
    /\ WORKFLOW_LOCKS["k1"] = NoLock
    /\ IndexOf(WORKFLOWS, "k1") = 0
    /\ \E i \in 1..Len(WORKFLOWS) : WORKFLOW_LOCKS[WORKFLOWS[i].key] # NoLock

\* no _get_or_create_workflow call is in flight
Quiescent == \A t \in Tasks : tasks[t].pc \in {"idle", "returned", "raised"}

\* C34: in a quiescent state every key with a lock entry has a registered
\* session, also after calls whose factory failed.
C34_LocksWithinRegistry ==
    Quiescent => \A k \in AllKeys : WORKFLOW_LOCKS[k] # NoLock => IndexOf(WORKFLOWS, k) # 0

C36_StatusMatchesCompletedAt ==
    \A i \in 1..Len(runRows) :
        HasRunRow(runRows, i) =>
            /\ runRows[i].status = "running" => runRows[i].completed_at = NoTime
            /\ runRows[i].completed_at # NoTime => runRows[i].status = "completed"

\* C37: a request that has marked its run "running" leads to that run having a
\* terminal status (completed or failed), also when the stream raises or the
\* client disconnects.
C37_RunEndsTerminal ==
    \A k \in ConvIds :
        (\E t \in ServeTasks : tasks[t].key = k /\ reqs[t].pc = "pulling")
            ~> (CONV_RUNS[k] # NoRun /\ RunOf(k).status \in {"completed", "failed"})

====
